---- MODULE Spec2Model ----
(***************************************************************************)
(* The synchronization engine of the Matrix bridge, MatrixInfluxBridge of  *)
(* src/matrix_influx/matrix_to_influx.py: construction and load of the     *)
(* resume state, login, join, the backfill pass, the live listener, and    *)
(* the sink adapter, together with the collaborators it talks to (the      *)
(* homeserver's room histories, the resume-state file, the sink).          *)
(***************************************************************************)
EXTENDS Integers, Sequences, FiniteSets, TLC

(***************************************************************************)
(* Bounds of the model.                                                    *)
(***************************************************************************)
\* number of process runs (starts of main) in one behaviour
MaxRuns == 2
\* events sent to the rooms in one behaviour
MaxPosts == 3

\* limit=100 of the room_messages call
PageLimit == 100

Rooms == {"A", "B"}

(***************************************************************************)
(* Python values that cursors and optional fields take: None, a str, an    *)
(* int.  JSON values of the resume-state file: null, a string, a number.   *)
(***************************************************************************)
None == <<"None">>
StrVal(s) == <<"str", s>>
IntVal(n) == <<"int", n>>

IsNone(v) == v[1] = "None"

\* Python truthiness of a cursor value: None, 0 and "" are falsy
Truthy(v) ==
    CASE v[1] = "None" -> FALSE
      [] v[1] = "str" -> v[2] /= ""
      [] v[1] = "int" -> v[2] /= 0

\* str(v) for a str or an int
StrOf(v) == IF v[1] = "str" THEN v[2] ELSE ToString(v[2])

JNull == <<"null">>
JString(s) == <<"string", s>>
JNumber(n) == <<"number", n>>

\* json.dump of one value / json.load of one value
JsonOfValue(v) ==
    CASE v[1] = "None" -> JNull
      [] v[1] = "str" -> JString(v[2])
      [] v[1] = "int" -> JNumber(v[2])

ValueOfJson(j) ==
    CASE j[1] = "null" -> None
      [] j[1] = "string" -> StrVal(j[2])
      [] j[1] = "number" -> IntVal(j[2])

\* the resume-state file: absent, unparseable text, or a JSON document
FileMissing == <<"missing">>
FileCorrupt == <<"text", "invalid json">>
\* the file as open(..., "w") leaves it before json.dump has written it
FileTruncated == <<"text", "">>
JsonObject(members) == <<"json", "object", members>>
\* a JSON document that is no object: json.load gives a list, an int, a str
\* or None
JsonArray(items) == <<"json", "array", items>>
JsonScalar(j) == <<"json", j[1], j>>
IsJsonObject(f) == f[1] = "json" /\ f[2] = "object"
IsJsonNonObject(f) == f[1] = "json" /\ f[2] /= "object"

\* a dump that leaves out the entries whose cursor is None
JsonDumpSkipNull(mapping) ==
    JsonObject([k \in {x \in DOMAIN mapping : ~IsNone(mapping[x])} |->
                   JsonOfValue(mapping[k])])

\* json.dump(self.room_sync_times, f): a full overwrite with one JSON object
JsonDump(mapping) == JsonObject([k \in DOMAIN mapping |-> JsonOfValue(mapping[k])])

\* dict.get(key): None when the key is absent
Get(mapping, k) == IF k \in DOMAIN mapping THEN mapping[k] ELSE None

\* the dict with mapping[k] = v set
SetItem(mapping, k, v) == [x \in (DOMAIN mapping) \cup {k} |-> IF x = k THEN v ELSE mapping[x]]

EmptyDict == [k \in {} |-> None]

(***************************************************************************)
(* The homeserver: events and the pagination of a room's history.          *)
(***************************************************************************)
TextKind == "RoomMessageText"
EventKinds == {"RoomMessageText", "RoomMessageEmote"}

\* the body of the i-th event of room r: bodies of several lengths, the
\* empty one among them
Bodies == <<"hi", "", "hello">>
BodyOf(r, i) == Bodies[((i + (IF r = "A" THEN 0 ELSE 1)) % 3) + 1]

\* origin_server_ts the homeserver assigns to the i-th event of room r
OriginTs(r, i) == i * 10 + (IF r = "A" THEN 0 ELSE 5)

\* an event as the client parses it from the homeserver: the attributes
\* sender and server_timestamp are those of the source
NewEvent(r, i, kind) ==
    [event_id |-> <<r, i>>, kind |-> kind, body |-> BodyOf(r, i),
     sender |-> "@user:hs", server_timestamp |-> OriginTs(r, i),
     source |-> [sender |-> "@user:hs", origin_server_ts |-> OriginTs(r, i)]]

\* the pagination token of the position after the first k events
Tok(k) == "t" \o ToString(k)

\* the position a start argument names: None is the beginning of the history
HasPos(h, start) ==
    IF IsNone(start) THEN TRUE ELSE \E k \in 0..Len(h) : Tok(k) = start[2]
PosOf(h, start) ==
    IF IsNone(start) THEN 0 ELSE CHOOSE k \in 0..Len(h) : Tok(k) = start[2]

Min(a, b) == IF a < b THEN a ELSE b

\* room_messages(start, limit, direction=front): the chunk and the end token
PageChunk(h, start, limit) ==
    SubSeq(h, PosOf(h, start) + 1, Min(PosOf(h, start) + limit, Len(h)))
PageEnd(h, start, limit) ==
    StrVal(Tok(Min(PosOf(h, start) + limit, Len(h))))

\* the homeserver may leave "end" out of a response whose chunk reaches the
\* end of the history (no further events): the client's response.end is None
MayOmitEnd(h, start, limit) ==
    /\ PageChunk(h, start, limit) /= <<>>
    /\ PosOf(h, start) + limit >= Len(h)

(***************************************************************************)
(* The configuration the bridge is constructed with.                       *)
(***************************************************************************)
\* MATRIX_ROOM_IDS: empty means "all accessible rooms"
RoomIdChoices == {{}, {"A"}, {"A", "B"}}

\* settings objects; store_content defaults to False. The attribute
\* store_message_in_db reads,
\* settings.postgres.store_content, exists on the mocked settings of the tests
\* and is missing on config.Settings, whose fields are matrix, database,
\* sync_state_file and logging
SettingsChoices ==
    {s \in [room_ids : RoomIdChoices, has_postgres : BOOLEAN, store_content : BOOLEAN] :
        s.has_postgres \/ ~s.store_content}

\* AsyncClient(...).rooms of a client that has not synced yet
ClientRoomsAtConstruction == {}

\* a monitored room set taken from the client whatever the configuration
MonitoredRoomsFromClient(room_ids) == ClientRoomsAtConstruction

\* __init__: the monitored room set
MonitoredRooms(room_ids) ==
    IF room_ids = {} THEN ClientRoomsAtConstruction ELSE room_ids

\* the orders of a loop over a list that names one of the rooms twice
OrdersWithRepeat(S) ==
    {s \in [1..(Cardinality(S) + 1) -> S] : \A x \in S : \E i \in DOMAIN s : s[i] = x}

\* the orders in which a for loop may walk a set
Orders(S) == {s \in [1..Cardinality(S) -> S] : \A x \in S : \E i \in DOMAIN s : s[i] = x}

(***************************************************************************)
(* The Watermark Store: load_sync_state and save_sync_state.               *)
(***************************************************************************)
\* a load that keeps the mapping it had when the file does not parse
LoadSyncStateKeepsOld(f, old) ==
    CASE f[1] = "missing" -> EmptyDict
      [] f[1] = "text" -> old
      [] IsJsonObject(f) -> [k \in DOMAIN f[3] |-> ValueOfJson(f[3][k])]
      [] IsJsonNonObject(f) -> old

\* load_sync_state: the mapping read from the file; a missing file and a
\* file that does not parse give the empty mapping; for a document that is
\* no object state.items() raises before the assignment, which leaves the
\* mapping as it was
LoadSyncState(f, old) ==
    CASE f[1] = "missing" -> EmptyDict
      [] f[1] = "text" -> EmptyDict
      [] IsJsonObject(f) -> [k \in DOMAIN f[3] |-> ValueOfJson(f[3][k])]
      [] IsJsonNonObject(f) -> old

\* load_sync_state raises: FileNotFoundError and JSONDecodeError are caught,
\* the AttributeError of state.items() on a list, an int, a str or None is not
LoadRaises(f) ==
    CASE f[1] = "missing" -> FALSE
      [] f[1] = "text" -> FALSE
      [] IsJsonObject(f) -> FALSE
      [] IsJsonNonObject(f) -> TRUE

\* save_sync_state: the file after the call
SaveSyncState(mapping) == JsonDump(mapping)

(***************************************************************************)
(* The Record Sink Adapter: store_message_in_db.                           *)
(***************************************************************************)
\* a sink adapter that stores an empty string when retention is off
ContentEmptyWhenDisabled(message, store_content) ==
    IF store_content THEN StrVal(message) ELSE StrVal("")

\* content=message if self.settings.postgres.store_content else None
Content(message, store_content) == IF store_content THEN StrVal(message) ELSE None

\* a length counted in words, len(message.split())
ContentLengthInWords(message) == IF message = "" THEN 0 ELSE 1

\* content_length=len(message)
ContentLength(message) == Len(message)

\* datetime.fromtimestamp(ms / 1000, tz=timezone.utc)
FromTimestampMs(ms) == [tz |-> "UTC", ms |-> ms]

\* the Message row store_message_in_db adds
MessageRow(room_id, sender, message, timestamp, message_type, store_content) ==
    [room_id |-> room_id, sender |-> sender, message_type |-> message_type,
     content |-> Content(message, store_content),
     content_length |-> ContentLength(message), timestamp |-> timestamp]

\* a filter that lets every message event through
IsInScopeAnyMessage(event) == event.kind \in EventKinds

\* isinstance(event, RoomMessageText)
IsInScope(event) == event.kind = TextKind

\* dict.get(key, default) on event.source
SourceGet(source, key, default) == IF key \in DOMAIN source THEN source[key] ELSE default

\* a timestamp taken from the attribute of the event, whatever the source holds
EventTimestampMsFromAttribute(event) == event.server_timestamp

\* event.source.get("origin_server_ts", event.server_timestamp)
EventTimestampMs(event) ==
    SourceGet(event.source, "origin_server_ts", event.server_timestamp)

\* event.source.get("sender", event.sender)
EventSender(event) == SourceGet(event.source, "sender", event.sender)

\* the row the page loop of fetch_historical_messages builds for an event
BackfillRow(room_id, event, store_content) ==
    MessageRow(room_id, EventSender(event), event.body,
               FromTimestampMs(EventTimestampMs(event)), event.kind, store_content)

\* a live path that builds the row from the attributes of the event
HandleMessageRowFromAttributes(room_id, event, store_content) ==
    MessageRow(room_id, event.sender, event.body,
               FromTimestampMs(event.server_timestamp), event.kind, store_content)

\* the row handle_message builds for an event
HandleMessageRow(room_id, event, store_content) ==
    MessageRow(room_id, EventSender(event), event.body,
               FromTimestampMs(EventTimestampMs(event)), event.kind, store_content)

(***************************************************************************)
(* The Backfill Engine: one iteration of fetch_historical_messages.        *)
(***************************************************************************)
\* a fetch that ignores the stored cursor
FetchStartFromBeginning(last_sync) == None

\* start=None if not last_sync else str(last_sync)
FetchStart(last_sync) == IF ~Truthy(last_sync) THEN None ELSE StrVal(StrOf(last_sync))

\* an update that does not look at the chunk
AdvanceWatermarkAlways(times, room_id, chunk, end) == SetItem(times, room_id, end)

\* if response.chunk: self.room_sync_times[room_id] = response.end
AdvanceWatermark(times, room_id, chunk, end) ==
    IF chunk /= <<>> THEN SetItem(times, room_id, end) ELSE times

\* a loop that leaves the save to the end of the pass
SavesAfterPageNever(chunk) == FALSE

\* if response.chunk: ... self.save_sync_state()
SavesAfterPage(chunk) == chunk /= <<>>

\* an update made before the loop over the chunk
WatermarkBeforeWrites(times, room_id, chunk, end, failAt) ==
    AdvanceWatermark(times, room_id, chunk, end)

\* room_sync_times after a page: the update follows the loop over the chunk,
\* so a write that raises (failAt > 0) leaves the mapping as it was
WatermarkAfterPage(times, room_id, chunk, end, failAt) ==
    IF failAt = 0 THEN AdvanceWatermark(times, room_id, chunk, end) ELSE times

\* a save made only when the page gave a row
FileAfterPageWhenWritten(f, times, chunk, failAt) ==
    IF failAt = 0 /\ SelectSeq(chunk, IsInScope) /= <<>> THEN SaveSyncState(times) ELSE f

\* the file after a page: rewritten with the new mapping when every write
\* succeeded and the chunk is not empty
FileAfterPage(f, times, chunk, failAt) ==
    IF failAt = 0 /\ SavesAfterPage(chunk) THEN SaveSyncState(times) ELSE f

(***************************************************************************)
(* Logging: setup_logging of src/matrix_influx/logger.py.                  *)
(***************************************************************************)
\* the levels of the logging module that getattr(logging, NAME) finds
LevelNames == {"DEBUG", "INFO", "WARNING", "ERROR", "CRITICAL"}
LevelOf(name) ==
    CASE name = "DEBUG" -> 10
      [] name = "INFO" -> 20
      [] name = "WARNING" -> 30
      [] name = "ERROR" -> 40
      [] name = "CRITICAL" -> 50

\* values of settings.logging.level: LogConfig.level is any str
LevelChoices == LevelNames \cup {"debug", "verbose"}

\* str.upper() of those values
Upper(s) ==
    CASE s = "debug" -> "DEBUG"
      [] s = "verbose" -> "VERBOSE"
      [] OTHER -> s

\* settings.logging
LogConfigChoices == [level : LevelChoices, max_size_mb : {1, 10}, backup_count : {0, 5}]

\* LogConfig(): the defaults
DefaultLogConfig == [level |-> "INFO", max_size_mb |-> 10, backup_count |-> 5]

\* a handler object: its class, the call that made it, and its rotation limits
Handler(kind, made_by, maxBytes, backupCount) ==
    [kind |-> kind, made_by |-> made_by, maxBytes |-> maxBytes, backupCount |-> backupCount]

\* the root logger of a new process, and one that already has a handler
FreshRootLogger == [level |-> 30, handlers |-> <<>>]
RootLoggerChoices ==
    {FreshRootLogger,
     [level |-> 10, handlers |-> <<Handler("LogCaptureHandler", 0, 0, 0)>>]}

\* getattr(logging, settings.logging.level.upper()) raises AttributeError
SetupLoggingRaises(cfg) == Upper(cfg.level) \notin LevelNames

\* the handlers the n-th call makes
NewHandlers(cfg, n) ==
    <<Handler("StreamHandler", n, 0, 0),
      Handler("RotatingFileHandler", n, cfg.max_size_mb * 1024 * 1024, cfg.backup_count)>>

\* a setup that adds its handlers to those the root logger has
SetupLoggingKeepsHandlers(root, cfg, n) ==
    IF SetupLoggingRaises(cfg) THEN root
    ELSE [level |-> LevelOf(Upper(cfg.level)),
          handlers |-> root.handlers \o NewHandlers(cfg, n)]

\* setup_logging: the root logger after the n-th call; setLevel comes before
\* handlers.clear(), so a level that raises leaves the root logger as it was
SetupLogging(root, cfg, n) ==
    IF SetupLoggingRaises(cfg) THEN root
    ELSE [level |-> LevelOf(Upper(cfg.level)), handlers |-> NewHandlers(cfg, n)]

(***************************************************************************)
(* State.                                                                  *)
(***************************************************************************)
VARIABLES
    history,          \* homeserver: room -> sequence of events
    joined,           \* homeserver: rooms the bridge's identity belongs to (B from the start)
    file,             \* the resume-state file
    sink,             \* the rows of matrix_messages, in insertion order
    settings,         \* the settings the bridge is constructed with
    pc,               \* where main() stands: stopped, login, join, backfill, live, closing
    run,              \* number of runs started so far
    monitored_rooms,  \* self.monitored_rooms
    order,            \* the order in which the loops walk monitored_rooms
    idx,              \* index in order of the next room of the running loop
    room_sync_times,  \* self.room_sync_times
    last_sync_time,   \* self.last_sync_time
    syncPos,          \* room -> events of the room the live feed has delivered
    written,          \* history: for each row of sink, the event, the run, the path
    loaded,           \* history: room_sync_times as the last load left it
    last,             \* history: the last operation and its outcome
    posts,            \* events sent to the rooms since the initial state
    closes,           \* calls of matrix_client.close() made by the current process
    root_logger,      \* logging.getLogger(): its level and its handlers
    setup_calls       \* calls of setup_logging made by the current process

vars == <<history, joined, file, sink, settings, pc, run, monitored_rooms, order, idx,
          room_sync_times, last_sync_time, syncPos, written, loaded, last,
          posts, closes, root_logger, setup_calls>>

serverVars == <<history, joined>>
bridgeVars == <<monitored_rooms, order, idx, room_sync_times, last_sync_time, syncPos>>
logVars == <<root_logger, setup_calls>>

\* the record of an operation that is not a page fetch
Op(op, room, outcome, saved) ==
    [op |-> op, room |-> room, outcome |-> outcome, saved |-> saved,
     start |-> None, chunk |-> <<>>, end |-> None, before |-> EmptyDict, failed_at |-> 0]

\* the record of one iteration of the backfill loop; failed_at is set by the
\* iteration to the rank, among the text events of the page, of the write
\* that raised
BackfillOp(room, outcome, saved, start, chunk, end, before) ==
    [op |-> "backfill", room |-> room, outcome |-> outcome, saved |-> saved,
     start |-> start, chunk |-> chunk, end |-> end, before |-> before, failed_at |-> 0]

Init ==
    /\ history = [r \in Rooms |-> <<>>]
    /\ joined = {"B"}
    /\ file = FileMissing
    /\ sink = <<>>
    /\ settings \in {s \in SettingsChoices : ~s.store_content}
    /\ pc = "stopped"
    /\ run = 0
    /\ monitored_rooms = {}
    /\ order = <<>>
    /\ idx = 1
    /\ room_sync_times = EmptyDict
    /\ last_sync_time = None
    /\ syncPos = [r \in Rooms |-> 0]
    /\ written = <<>>
    /\ loaded = EmptyDict
    /\ last = Op("none", "", "ok", FALSE)
    /\ posts = 0
    /\ closes = 0
    /\ root_logger = FreshRootLogger
    /\ setup_calls = 0

(***************************************************************************)
(* The environment.                                                        *)
(***************************************************************************)
\* somebody sends an event to a room, while the bridge is down or listening.
\* Construction, login and the join loop do not read the histories, and the
\* feed starts after the backfill pass: an event sent during them is, for
\* the bridge, an event sent just before the run (a room not yet fetched) or
\* an event the feed never delivered (a room already fetched)
ServerPost(r, kind) ==
    /\ posts < MaxPosts
    /\ posts' = posts + 1
    /\ pc \in {"stopped", "live"}
    /\ history' = [history EXCEPT ![r] = Append(@, NewEvent(r, Len(@) + 1, kind))]
    /\ UNCHANGED <<joined, file, sink, settings, logVars, pc, run, bridgeVars, written, loaded,
                   last, closes>>

\* main(): "except KeyboardInterrupt" swallows the interrupt, every other
\* exception goes on to the caller; "none": run() has returned
MainOutcome(exc) ==
    CASE exc = "none" -> "returned"
      [] exc = "KeyboardInterrupt" -> "interrupted"
      [] OTHER -> "raised"

\* a main() that closes the client after the try statement and not in a
\* finally block
ClosesAfterNoFinally(exc, n) == IF MainOutcome(exc) = "raised" THEN n ELSE n + 1

\* main(): finally: await bridge.matrix_client.close()
ClosesAfter(exc, n) == n + 1

\* the process ends: the bridge object and the feed are gone
EndOfProcess(exc) ==
    /\ pc' = "stopped"
    /\ last' = Op("close", "", MainOutcome(exc), FALSE)
    /\ closes' = ClosesAfter(exc, closes)
    /\ monitored_rooms' = {}
    /\ order' = <<>>
    /\ idx' = 1
    /\ room_sync_times' = EmptyDict
    /\ last_sync_time' = None
    /\ syncPos' = [r \in Rooms |-> 0]
    /\ loaded' = EmptyDict

\* run() ends at one of its awaits, by returning (sync_forever has returned)
\* or by a KeyboardInterrupt: main() closes the client and returns
Shutdown(exc) ==
    /\ pc \in {"backfill", "live"}
    /\ exc = "none" => pc = "live"
    /\ EndOfProcess(exc)
    /\ UNCHANGED <<serverVars, file, sink, settings, logVars, run, written, posts>>

\* an error raised by run() has reached main(): the finally block closes the
\* client and the error goes on to the caller of main()
Close ==
    /\ pc = "closing"
    /\ EndOfProcess("Exception")
    /\ UNCHANGED <<serverVars, file, sink, settings, logVars, run, written, posts>>

(***************************************************************************)
(* run(): construction, login, join.                                       *)
(***************************************************************************)
\* a run() that registers the callback once the first room has been fetched
StageAtFirstRoom(stage, i, ord) ==
    IF i <= Len(ord) /\ stage = "join" THEN [pc |-> stage, idx |-> i]
    ELSE IF stage = "join" /\ Len(ord) > 0 THEN [pc |-> "backfill", idx |-> 1]
    ELSE [pc |-> "live", idx |-> 1]

\* where run() stands once the loop of `stage` has reached index i
StageAt(stage, i, ord) ==
    IF i <= Len(ord) THEN [pc |-> stage, idx |-> i]
    ELSE IF stage = "join" /\ Len(ord) > 0 THEN [pc |-> "backfill", idx |-> 1]
    ELSE [pc |-> "live", idx |-> 1]

\* add_event_callback and the start of sync_forever: the feed delivers the
\* events that arrive from now on
FeedFrom(stage, i, ord) ==
    IF StageAt(stage, i, ord).pc = "live" THEN [r \in Rooms |-> Len(history[r])]
    ELSE syncPos

\* main(): setup_logging(settings) in the root logger of the new process, then
\* MatrixInfluxBridge(settings), i.e. __init__ with load_sync_state
Start ==
    /\ pc = "stopped"
    /\ run < MaxRuns
    /\ run' = run + 1
    /\ setup_calls' = 1
    /\ root_logger' = SetupLogging(FreshRootLogger, DefaultLogConfig, setup_calls')
    /\ monitored_rooms' = MonitoredRooms(settings.room_ids)
    /\ order' \in Orders(monitored_rooms')
    /\ idx' = 1
    /\ room_sync_times' = LoadSyncState(file, EmptyDict)
    /\ loaded' = room_sync_times'
    /\ last_sync_time' = None
    /\ pc' = "login"
    /\ last' = Op("start", "", "ok", FALSE)
    /\ closes' = 0
    /\ UNCHANGED <<serverVars, file, sink, settings, syncPos, written, posts>>

\* a connect_to_matrix that logs the failed login and returns
LoginIgnoresStatus(ok) ==
    /\ pc = "login"
    /\ pc' = StageAt("join", 1, order).pc
    /\ syncPos' = FeedFrom("join", 1, order)
    /\ last' = Op("login", "", IF ok THEN "ok" ELSE "raised", FALSE)
    /\ UNCHANGED <<serverVars, file, sink, settings, logVars, run, monitored_rooms, order,
                   idx, room_sync_times, last_sync_time, written, loaded, posts, closes>>

\* connect_to_matrix
Login(ok) ==
    /\ pc = "login"
    /\ IF ok
         THEN /\ pc' = StageAt("join", 1, order).pc
              /\ syncPos' = FeedFrom("join", 1, order)
              /\ last' = Op("login", "", "ok", FALSE)
         ELSE /\ pc' = "closing"
              /\ syncPos' = syncPos
              /\ last' = Op("login", "", "raised", FALSE)
    /\ UNCHANGED <<serverVars, file, sink, settings, logVars, run, monitored_rooms, order, idx,
                   room_sync_times, last_sync_time, written, loaded, posts, closes>>

\* one iteration of the join loop of run()
Join ==
    /\ pc = "join"
    /\ joined' = joined \cup {order[idx]}
    /\ pc' = StageAt("join", idx + 1, order).pc
    /\ idx' = StageAt("join", idx + 1, order).idx
    /\ last' = Op("join", order[idx], "ok", FALSE)
    /\ UNCHANGED <<history, file, sink, settings, logVars, run, monitored_rooms, order,
                   room_sync_times, last_sync_time, syncPos, written, loaded, posts, closes>>

(***************************************************************************)
(* fetch_historical_messages: one iteration of its loop per step.          *)
(***************************************************************************)
\* a page loop that leaves out the events an earlier pass has written
InScopeEventsNotYetWritten(chunk) ==
    SelectSeq(chunk, LAMBDA e : /\ IsInScope(e)
                                /\ \A k \in 1..Len(written) :
                                       written[k].event_id /= e.event_id)

\* the events of a page that are written
InScopeEvents(chunk) == SelectSeq(chunk, IsInScope)

\* the rows of the first n events of a sequence of in-scope events
RowsOf(room_id, events, n) ==
    [i \in 1..n |-> BackfillRow(room_id, events[i], settings.store_content)]

\* the history records of the same rows
WrittenOf(events, n, via) ==
    [i \in 1..n |-> [event_id |-> events[i].event_id, run |-> run, via |-> via]]

\* the sink write of an event raises: always when settings has no postgres
\* attribute, and whenever the database fails
MayWrite == settings.has_postgres

\* a sink that commits the rows of a page together, none when a write raises
RowsCommittedPerPage(n, failAt) == IF failAt = 0 THEN n ELSE 0

\* store_message_in_db commits each row in a session of its own: of the n text
\* events of a page, the rows written before the write that raises stay
RowsCommitted(n, failAt) == IF failAt = 0 THEN n ELSE failAt - 1

\* the page fetch returns a page; failAt = 0: every write succeeds, failAt = k:
\* the k-th write of the page raises; omitted: the response has no end token
BackfillPage(failAt, omitted) ==
    LET r == order[idx]
        start == FetchStart(Get(room_sync_times, r))
        chunk == PageChunk(history[r], start, PageLimit)
        end == IF omitted THEN None ELSE PageEnd(history[r], start, PageLimit)
        texts == InScopeEvents(chunk)
        done == RowsCommitted(Len(texts), failAt)
    IN  /\ pc = "backfill"
        /\ HasPos(history[r], start)
        /\ failAt \in 0..Len(texts)
        /\ omitted => (failAt = 0 /\ MayOmitEnd(history[r], start, PageLimit))
        /\ (~MayWrite /\ Len(texts) > 0) => failAt = 1
        /\ sink' = sink \o RowsOf(r, texts, done)
        /\ written' = written \o WrittenOf(texts, done, "backfill")
        /\ room_sync_times' = WatermarkAfterPage(room_sync_times, r, chunk, end, failAt)
        /\ file' = FileAfterPage(file, room_sync_times', chunk, failAt)
        /\ IF failAt = 0
             THEN /\ pc' = StageAt("backfill", idx + 1, order).pc
                  /\ idx' = StageAt("backfill", idx + 1, order).idx
                  /\ syncPos' = FeedFrom("backfill", idx + 1, order)
                  /\ last' = BackfillOp(r, "ok", SavesAfterPage(chunk), start, chunk, end,
                                        room_sync_times)
             ELSE /\ pc' = "closing"
                  /\ last' = [BackfillOp(r, "raised", FALSE, start, chunk, end,
                                         room_sync_times) EXCEPT !.failed_at = failAt]
                  /\ UNCHANGED <<idx, syncPos>>
        /\ UNCHANGED <<serverVars, settings, logVars, run, monitored_rooms, order, last_sync_time,
                       loaded, posts, closes>>

\* the process is interrupted inside the save_sync_state of a page, between
\* open(..., "w") and the end of json.dump: the rows of the page are in the
\* sink, the file is truncated
BackfillSaveInterrupted ==
    LET r == order[idx]
        start == FetchStart(Get(room_sync_times, r))
        chunk == PageChunk(history[r], start, PageLimit)
        texts == InScopeEvents(chunk)
    IN  /\ pc = "backfill"
        /\ HasPos(history[r], start)
        /\ MayWrite \/ Len(texts) = 0
        /\ SavesAfterPage(chunk)
        /\ sink' = sink \o RowsOf(r, texts, Len(texts))
        /\ written' = written \o WrittenOf(texts, Len(texts), "backfill")
        /\ file' = FileTruncated
        /\ EndOfProcess("KeyboardInterrupt")
        /\ UNCHANGED <<serverVars, settings, logVars, run, posts>>

\* a loop that raises when the response is not a page
BackfillErrorResponseAborts ==
    LET r == order[idx]
        start == FetchStart(Get(room_sync_times, r))
    IN  /\ pc = "backfill"
        /\ pc' = "closing"
        /\ last' = BackfillOp(r, "error_response", FALSE, start, <<>>, None,
                              room_sync_times)
        /\ UNCHANGED <<serverVars, file, sink, settings, logVars, run, bridgeVars, written,
                       loaded, posts, closes>>

\* the page fetch returns an error response instead of a page
BackfillErrorResponse ==
    LET r == order[idx]
        start == FetchStart(Get(room_sync_times, r))
    IN  /\ pc = "backfill"
        /\ pc' = StageAt("backfill", idx + 1, order).pc
        /\ idx' = StageAt("backfill", idx + 1, order).idx
        /\ syncPos' = FeedFrom("backfill", idx + 1, order)
        /\ last' = BackfillOp(r, "error_response", FALSE, start, <<>>, None,
                              room_sync_times)
        /\ UNCHANGED <<serverVars, file, sink, settings, logVars, run, monitored_rooms, order,
                       room_sync_times, last_sync_time, written, loaded, posts, closes>>

\* the page fetch raises
BackfillRaise ==
    LET r == order[idx]
        start == FetchStart(Get(room_sync_times, r))
    IN  /\ pc = "backfill"
        /\ pc' = "closing"
        /\ last' = BackfillOp(r, "fetch_raised", FALSE, start, <<>>, None,
                              room_sync_times)
        /\ UNCHANGED <<serverVars, file, sink, settings, logVars, run, bridgeVars, written, loaded,
                       posts, closes>>

(***************************************************************************)
(* The Live Ingestion Listener: message_callback and handle_message.       *)
(***************************************************************************)
Max(a, b) == IF a > b THEN a ELSE b

\* a run() that registers the callback and starts the sync loop as a task
\* before it awaits the backfill
FeedRunningFromBackfill(stage) == stage \in {"backfill", "live"}

\* message_callback is called once add_event_callback and sync_forever, the
\* last two statements of run(), have been reached
FeedRunning(stage) == stage = "live"

\* a callback that keeps the timestamp of the event it was given
LastSyncTimeAfterLatest(server_timestamp, prev) == IntVal(server_timestamp)

\* max(event.server_timestamp, self.last_sync_time or 0)
LastSyncTimeAfter(server_timestamp, prev) ==
    IntVal(Max(server_timestamp, IF Truthy(prev) THEN prev[2] ELSE 0))

\* a callback that takes the event's timestamp as the cursor of its room
RoomSyncTimesAfterCallbackAdvanced(times, room_id, event) ==
    SetItem(times, room_id, IntVal(event.server_timestamp))

\* room_sync_times after message_callback: the callback assigns
\* self.last_sync_time and no entry of self.room_sync_times
RoomSyncTimesAfterCallback(times, room_id, event) == times

\* a callback that assigns last_sync_time and saves before it awaits
\* handle_message
LiveEventSavesFirst(r, fails) ==
    LET event == history[r][syncPos[r] + 1]
    IN  /\ FeedRunning(pc)
        /\ r \in joined
        /\ syncPos[r] < Len(history[r])
        /\ syncPos' = [syncPos EXCEPT ![r] = @ + 1]
        /\ ~MayWrite => fails
        /\ IF ~IsInScope(event)
             THEN /\ ~fails
                  /\ last' = Op("live", r, "ignored", FALSE)
                  /\ UNCHANGED <<sink, written, room_sync_times, last_sync_time, file, pc>>
             ELSE /\ last_sync_time' =
                         LastSyncTimeAfter(event.server_timestamp, last_sync_time)
                  /\ room_sync_times' = RoomSyncTimesAfterCallback(room_sync_times, r, event)
                  /\ file' = SaveSyncState(room_sync_times')
                  /\ IF fails
                       THEN /\ pc' = "closing"
                            /\ last' = Op("live", r, "raised", FALSE)
                            /\ UNCHANGED <<sink, written>>
                       ELSE /\ sink' = Append(sink, HandleMessageRow(r, event,
                                                                    settings.store_content))
                            /\ written' = Append(written, [event_id |-> event.event_id,
                                                           run |-> run, via |-> "live"])
                            /\ last' = Op("live", r, "ok", TRUE)
                            /\ pc' = pc
        /\ UNCHANGED <<serverVars, settings, logVars, run, monitored_rooms, order, idx,
                       loaded, posts, closes>>

\* the feed delivers the next event of a joined room to message_callback
LiveEvent(r, fails) ==
    LET event == history[r][syncPos[r] + 1]
    IN  /\ FeedRunning(pc)
        /\ r \in joined
        /\ syncPos[r] < Len(history[r])
        /\ syncPos' = [syncPos EXCEPT ![r] = @ + 1]
        /\ ~MayWrite => fails
        /\ IF ~IsInScope(event)
             THEN /\ ~fails
                  /\ last' = Op("live", r, "ignored", FALSE)
                  /\ UNCHANGED <<sink, written, room_sync_times, last_sync_time, file, pc>>
             ELSE IF fails
             THEN /\ pc' = "closing"
                  /\ last' = Op("live", r, "raised", FALSE)
                  /\ UNCHANGED <<sink, written, room_sync_times, last_sync_time, file>>
             ELSE /\ sink' = Append(sink, HandleMessageRow(r, event, settings.store_content))
                  /\ written' = Append(written, [event_id |-> event.event_id,
                                                 run |-> run, via |-> "live"])
                  /\ last_sync_time' =
                         LastSyncTimeAfter(event.server_timestamp, last_sync_time)
                  /\ room_sync_times' = RoomSyncTimesAfterCallback(room_sync_times, r, event)
                  /\ file' = SaveSyncState(room_sync_times')
                  /\ last' = Op("live", r, "ok", TRUE)
                  /\ pc' = pc
        /\ UNCHANGED <<serverVars, settings, logVars, run, monitored_rooms, order, idx,
                       loaded, posts, closes>>

\* the writes of a page fetch that may raise: none (0), or one of those of a
\* page of the room, which holds at most PageLimit events
WritePositions == 0..Min(PageLimit, Len(history[order[idx]]))

\* the process is interrupted inside the save_sync_state of message_callback
LiveSaveInterrupted(r) ==
    LET event == history[r][syncPos[r] + 1]
    IN  /\ FeedRunning(pc)
        /\ r \in joined
        /\ syncPos[r] < Len(history[r])
        /\ IsInScope(event)
        /\ MayWrite
        /\ sink' = Append(sink, HandleMessageRow(r, event, settings.store_content))
        /\ written' = Append(written, [event_id |-> event.event_id,
                                       run |-> run, via |-> "live"])
        /\ file' = FileTruncated
        /\ EndOfProcess("KeyboardInterrupt")
        /\ UNCHANGED <<serverVars, settings, logVars, run, posts>>

Next ==
    \/ \E r \in Rooms, kind \in EventKinds : ServerPost(r, kind)
    \/ \E exc \in {"none", "KeyboardInterrupt"} : Shutdown(exc)
    \/ Close
    \/ Start
    \/ \E ok \in BOOLEAN : Login(ok)
    \/ Join
    \/ pc = "backfill" /\ \E failAt \in WritePositions : BackfillPage(failAt, FALSE)
    \/ BackfillErrorResponse
    \/ BackfillRaise
    \/ \E r \in Rooms, fails \in BOOLEAN : LiveEvent(r, fails)

Spec == Init /\ [][Next]_vars

(***************************************************************************)
(* The same runs with two more things that can happen to the bridge: a     *)
(* page whose end token the homeserver has left out, and an interruption   *)
(* of the process inside save_sync_state.                                  *)
(***************************************************************************)
NextFaults ==
    \/ Next
    \/ pc = "backfill" /\ BackfillPage(0, TRUE)
    \/ BackfillSaveInterrupted
    \/ \E r \in Rooms : LiveSaveInterrupted(r)

SpecFaults == Init /\ [][NextFaults]_vars

(***************************************************************************)
(* A history longer than one page: room A holds PageLimit + 1 text         *)
(* messages when the bridge is first started, and both rooms are monitored. *)
(***************************************************************************)
LongHistory(r) == [i \in 1..(PageLimit + 1) |-> NewEvent(r, i, TextKind)]

InitLong ==
    /\ history = [r \in Rooms |-> IF r = "A" THEN LongHistory(r) ELSE <<>>]
    /\ joined = {"B"}
    /\ file = FileMissing
    /\ sink = <<>>
    /\ settings \in {s \in SettingsChoices :
                        s.has_postgres /\ ~s.store_content /\ s.room_ids = Rooms}
    /\ pc = "stopped"
    /\ run = 0
    /\ monitored_rooms = {}
    /\ order = <<>>
    /\ idx = 1
    /\ room_sync_times = EmptyDict
    /\ last_sync_time = None
    /\ syncPos = [r \in Rooms |-> 0]
    /\ written = <<>>
    /\ loaded = EmptyDict
    /\ last = Op("none", "", "ok", FALSE)
    /\ posts = 0
    /\ closes = 0
    /\ root_logger = FreshRootLogger
    /\ setup_calls = 0

\* the bridge's own steps: no event is sent while the behaviour lasts, and
\* every fetch the homeserver answers is answered with a page
NextLong ==
    \/ \E exc \in {"none", "KeyboardInterrupt"} : Shutdown(exc)
    \/ Close
    \/ Start
    \/ \E ok \in BOOLEAN : Login(ok)
    \/ Join
    \/ pc = "backfill" /\ \E failAt \in WritePositions : BackfillPage(failAt, FALSE)
    \/ BackfillRaise

SpecLong == InitLong /\ [][NextLong]_vars

\* histories longer than one page in one room or in both, and a bridge that
\* monitors room A or both rooms
InitPages ==
    /\ history \in {[r \in Rooms |-> IF r \in L THEN LongHistory(r) ELSE <<>>] :
                        L \in (SUBSET Rooms) \ {{}}}
    /\ joined = {"B"}
    /\ file = FileMissing
    /\ sink = <<>>
    /\ settings \in {s \in SettingsChoices :
                        s.has_postgres /\ ~s.store_content /\ s.room_ids /= {}}
    /\ pc = "stopped"
    /\ run = 0
    /\ monitored_rooms = {}
    /\ order = <<>>
    /\ idx = 1
    /\ room_sync_times = EmptyDict
    /\ last_sync_time = None
    /\ syncPos = [r \in Rooms |-> 0]
    /\ written = <<>>
    /\ loaded = EmptyDict
    /\ last = Op("none", "", "ok", FALSE)
    /\ posts = 0
    /\ closes = 0
    /\ root_logger = FreshRootLogger
    /\ setup_calls = 0

\* the steps of a bridge whose sink writes all succeed
NextPages ==
    \/ \E exc \in {"none", "KeyboardInterrupt"} : Shutdown(exc)
    \/ Close
    \/ Start
    \/ \E ok \in BOOLEAN : Login(ok)
    \/ Join
    \/ pc = "backfill" /\ BackfillPage(0, FALSE)
    \/ BackfillRaise

SpecPages == InitPages /\ [][NextPages]_vars

(***************************************************************************)
(* The Sink Adapter under both settings of the retention flag: the runs of *)
(* a bridge whose settings have the attribute store_message_in_db reads.   *)
(***************************************************************************)
InitSink ==
    /\ history = [r \in Rooms |-> <<>>]
    /\ joined = {"B"}
    /\ file = FileMissing
    /\ sink = <<>>
    /\ settings \in {s \in SettingsChoices : s.has_postgres}
    /\ pc = "stopped"
    /\ run = 0
    /\ monitored_rooms = {}
    /\ order = <<>>
    /\ idx = 1
    /\ room_sync_times = EmptyDict
    /\ last_sync_time = None
    /\ syncPos = [r \in Rooms |-> 0]
    /\ written = <<>>
    /\ loaded = EmptyDict
    /\ last = Op("none", "", "ok", FALSE)
    /\ posts = 0
    /\ closes = 0
    /\ root_logger = FreshRootLogger
    /\ setup_calls = 0

SpecSink == InitSink /\ [][Next]_vars

(***************************************************************************)
(* The Watermark Store on its own: load_sync_state and save_sync_state     *)
(* called on a constructed bridge in any order, between assignments to     *)
(* room_sync_times and changes of the file made from outside, as the unit  *)
(* tests of the store do.                                                  *)
(***************************************************************************)
\* cursors a mapping may hold: None, a token, an int
CursorChoices == {None, StrVal(Tok(1)), IntVal(7)}

\* mappings of some rooms to cursors
MappingChoices ==
    UNION {[D -> CursorChoices] : D \in SUBSET Rooms}

\* contents of the file: none, text that is no JSON, a saved mapping
FileChoices == {FileMissing, FileCorrupt} \cup {JsonDump(m) : m \in MappingChoices}

InitStore ==
    /\ history = [r \in Rooms |-> <<>>]
    /\ joined = {"B"}
    /\ file \in FileChoices
    /\ sink = <<>>
    /\ settings \in {s \in SettingsChoices : s.has_postgres /\ s.room_ids = Rooms}
    /\ pc = "harness"
    /\ run = 1
    /\ monitored_rooms = MonitoredRooms(settings.room_ids)
    /\ order \in Orders(monitored_rooms)
    /\ idx = 1
    /\ room_sync_times = LoadSyncState(file, EmptyDict)
    /\ last_sync_time = None
    /\ syncPos = [r \in Rooms |-> 0]
    /\ written = <<>>
    /\ loaded = room_sync_times
    /\ last = Op("start", "", "ok", FALSE)
    /\ posts = 0
    /\ closes = 0
    /\ root_logger = FreshRootLogger
    /\ setup_calls = 0

storeFrame == <<history, joined, sink, settings, logVars, pc, run, monitored_rooms, order, idx,
                last_sync_time, syncPos, written, posts, closes>>

\* bridge.load_sync_state()
StoreLoad ==
    /\ pc = "harness"
    /\ room_sync_times' = LoadSyncState(file, room_sync_times)
    /\ loaded' = room_sync_times'
    /\ last' = [Op("load", "", IF LoadRaises(file) THEN "raised" ELSE "ok", FALSE)
                 EXCEPT !.before = room_sync_times]
    /\ UNCHANGED <<file, storeFrame>>

\* bridge.save_sync_state()
StoreSave ==
    /\ pc = "harness"
    /\ file' = SaveSyncState(room_sync_times)
    /\ last' = [Op("save", "", "ok", TRUE) EXCEPT !.before = room_sync_times]
    /\ UNCHANGED <<room_sync_times, loaded, storeFrame>>

\* bridge.room_sync_times = mapping
StoreAssign(mapping) ==
    /\ pc = "harness"
    /\ room_sync_times' = mapping
    /\ last' = Op("assign", "", "ok", FALSE)
    /\ UNCHANGED <<file, loaded, storeFrame>>

\* the file is removed or rewritten from outside
StoreWriteFile(f) ==
    /\ pc = "harness"
    /\ file' = f
    /\ last' = Op("write_file", "", "ok", FALSE)
    /\ UNCHANGED <<room_sync_times, loaded, storeFrame>>

NextStore ==
    \/ StoreLoad
    \/ StoreSave
    \/ \E m \in MappingChoices : StoreAssign(m)
    \/ \E f \in FileChoices : StoreWriteFile(f)

SpecStore == InitStore /\ [][NextStore]_vars

(***************************************************************************)
(* The same calls when the file may also be given, from outside, a         *)
(* well-formed JSON document that is not an object.                        *)
(***************************************************************************)
NonObjectFileChoices ==
    {JsonArray(<<>>), JsonArray(<<JString(Tok(1))>>), JsonScalar(JNumber(7)),
     JsonScalar(JString(Tok(1))), JsonScalar(JNull)}

NextAnyFile ==
    \/ NextStore
    \/ \E f \in NonObjectFileChoices : StoreWriteFile(f)

SpecAnyFile == InitStore /\ [][NextAnyFile]_vars

(***************************************************************************)
(* C36.  load_sync_state raises no exception whatever the file holds, a    *)
(* JSON list, number, string or null included, and leaves the empty        *)
(* mapping whenever the file does not hold a JSON object.                  *)
(***************************************************************************)
C36_LoadNeverRaises ==
    last.op = "load" =>
        /\ last.outcome = "ok"
        /\ ~IsJsonObject(file) => room_sync_times = EmptyDict

(***************************************************************************)
(* Notions the properties below are stated with.                           *)
(***************************************************************************)
\* the position in room r's history that the cursor of r in a mapping names:
\* k for the token of position k, 0 when there is no such cursor
CursorPosition(mapping, r) ==
    LET c == Get(mapping, r)
    IN  IF c[1] = "str" /\ \E k \in 0..Len(history[r]) : Tok(k) = c[2]
        THEN CHOOSE k \in 0..Len(history[r]) : Tok(k) = c[2]
        ELSE 0

\* a mapping holds a token of the homeserver for room r
HasToken(mapping, r) ==
    /\ r \in DOMAIN mapping
    /\ mapping[r][1] = "str"
    /\ \E k \in 0..Len(history[r]) : Tok(k) = mapping[r][2]

\* the rows the current run has written on a path
RowsOfRun(n, via) == {k \in 1..Len(written) : written[k].run = n /\ written[k].via = via}

\* the event a row was built from
EventOfRow(k) == history[written[k].event_id[1]][written[k].event_id[2]]

(***************************************************************************)
(* C1.  The backfill of a run does not fetch or write a message that lies  *)
(* before the watermark the run loaded for the room: every row a backfill  *)
(* writes comes from an event after the loaded cursor, and a room with no  *)
(* event after its loaded cursor keeps that cursor.                        *)
(***************************************************************************)
C1_NoRefetchBeforeWatermark ==
    /\ \A k \in RowsOfRun(run, "backfill") :
           written[k].event_id[2] > CursorPosition(loaded, written[k].event_id[1])
    /\ \A r \in Rooms :
           (HasToken(loaded, r) /\ CursorPosition(loaded, r) = Len(history[r]))
               => Get(room_sync_times, r) = loaded[r]

\* the scenario of the claim: rooms A and B were backfilled by run 1, one text
\* message arrived in A, and the backfill of run 2 wrote that message alone
C1_Witness ==
    /\ run = 2
    /\ pc = "live"
    /\ loaded = [r \in {"A", "B"} |-> StrVal(Tok(1))]
    /\ \E k \in 1..Len(written) :
           /\ RowsOfRun(2, "backfill") = {k}
           /\ written[k].event_id = <<"A", 2>>
    /\ RowsOfRun(2, "live") = {}
    /\ room_sync_times["B"] = loaded["B"]
    /\ room_sync_times["A"] = StrVal(Tok(2))

(***************************************************************************)
(* C2.  No message written to the sink in one run is written again by the  *)
(* backfill of a later run.                                                *)
(***************************************************************************)
C2_NoRewriteByLaterBackfill ==
    \A i, j \in 1..Len(written) :
        (written[i].run < written[j].run /\ written[j].via = "backfill")
            => written[i].event_id /= written[j].event_id

(***************************************************************************)
(* C3.  When fetch_historical_messages returns, every fetch of the pass    *)
(* having given a page, every text message after the cursor the run loaded *)
(* for a monitored room has been written to the sink.                      *)
(***************************************************************************)
C3_BackfillDrainsHistory ==
    (pc = "live" /\ last.op = "backfill")
        => \A r \in monitored_rooms :
               \A i \in (CursorPosition(loaded, r) + 1)..Len(history[r]) :
                   history[r][i].kind = TextKind
                       => \E k \in 1..Len(written) : written[k].event_id = <<r, i>>

(***************************************************************************)
(* C4.  load_sync_state on a missing or an unparseable file does not raise *)
(* and leaves room_sync_times empty, whatever it held before.              *)
(***************************************************************************)
C4_LoadColdStart ==
    (last.op = "load" /\ file[1] \in {"missing", "text"})
        => (last.outcome = "ok" /\ room_sync_times = EmptyDict)

\* a load of an unparseable file by a bridge whose mapping held cursors
C4_Witness ==
    /\ last.op = "load"
    /\ file = FileCorrupt
    /\ \E r \in DOMAIN last.before : Truthy(last.before[r])
    /\ room_sync_times = EmptyDict

(***************************************************************************)
(* C5.  Every row of the sink has content None when store_content is false *)
(* and content equal to the body of its event when store_content is true,  *)
(* on the backfill path and on the live path.                              *)
(***************************************************************************)
C5_ContentRetention ==
    /\ Len(sink) = Len(written)
    /\ \A k \in 1..Len(sink) :
           sink[k].content =
               IF settings.store_content THEN StrVal(EventOfRow(k).body) ELSE None

\* retention off: a row of each path, one of them from a message with a body
C5_Witness ==
    /\ ~settings.store_content
    /\ \E k \in RowsOfRun(run, "backfill") : EventOfRow(k).body /= ""
    /\ \E k \in RowsOfRun(run, "live") : sink[k].content = None

(***************************************************************************)
(* C6.  Every row of the sink has content_length equal to the length of    *)
(* the body of the event it was built from, and the type of that event.    *)
(***************************************************************************)
C6_ContentLength ==
    \A k \in 1..Len(sink) :
        /\ sink[k].content_length = Len(EventOfRow(k).body)
        /\ sink[k].message_type = EventOfRow(k).kind

\* rows of bodies of three lengths, none of them retained
C6_Witness ==
    /\ ~settings.store_content
    /\ {sink[k].content_length : k \in 1..Len(sink)} = {0, 2, 5}
    /\ \A k \in 1..Len(sink) : sink[k].content = None

(***************************************************************************)
(* C7.  With explicit room ids configured, only configured rooms have an   *)
(* entry in room_sync_times, are fetched from, or have messages written.   *)
(***************************************************************************)
C7_OnlyConfiguredRooms ==
    settings.room_ids /= {} =>
        /\ DOMAIN room_sync_times \subseteq settings.room_ids
        /\ pc = "backfill" => order[idx] \in settings.room_ids
        /\ \A k \in 1..Len(written) : written[k].event_id[1] \in settings.room_ids

(***************************************************************************)
(* C8.  A step of the backfill loop whose page fetch raises or returns an  *)
(* error response ends the pass: no later room is fetched, and the error   *)
(* reaches main().                                                         *)
(***************************************************************************)
C8_FetchErrorAborts ==
    [][(/\ pc = "backfill"
        /\ last'.op = "backfill"
        /\ last'.outcome \in {"fetch_raised", "error_response"}) =>
          pc' = "closing"]_vars

(***************************************************************************)
(* C9.  In a step of the backfill loop, the room's watermark and the file  *)
(* change only when every text event of the page has been written, and     *)
(* then to the page's end token; when a write of the page raises, the      *)
(* error reaches main() and room_sync_times and the file stay as they were.*)
(***************************************************************************)
IsTextEvent(e) == e.kind = "RoomMessageText"

C9_WatermarkAfterWrites ==
    [][(pc = "backfill" /\ last'.op = "backfill") =>
          LET texts == SelectSeq(last'.chunk, IsTextEvent)
          IN  /\ last'.outcome = "raised" =>
                     /\ pc' = "closing"
                     /\ room_sync_times' = room_sync_times
                     /\ file' = file
              /\ (room_sync_times' /= room_sync_times \/ file' /= file) =>
                     /\ Len(written') = Len(written) + Len(texts)
                     /\ \A i \in 1..Len(texts) :
                            written'[Len(written) + i].event_id = texts[i].event_id
                     /\ room_sync_times' = SetItem(room_sync_times, last'.room, last'.end)
                     /\ file' = JsonDump(room_sync_times')]_vars

\* the second write of a page raised: the first row is in the sink, and the
\* cursor of the room, in memory and in the file, is the one of the run before
C9_Witness ==
    /\ pc = "closing"
    /\ last.op = "backfill"
    /\ last.outcome = "raised"
    /\ HasToken(last.before, last.room)
    /\ room_sync_times = last.before
    /\ file = JsonDump(last.before)
    /\ \E k \in RowsOfRun(run, "backfill") : written[k].event_id[1] = last.room

(***************************************************************************)
(* C10.  A page with no event leaves room_sync_times as it was and does    *)
(* not rewrite the file.                                                   *)
(***************************************************************************)
C10_EmptyPageLeavesWatermark ==
    [][(/\ pc = "backfill"
        /\ last'.op = "backfill"
        /\ last'.outcome = "ok"
        /\ last'.chunk = <<>>) =>
          /\ room_sync_times' = room_sync_times
          /\ file' = file
          /\ ~last'.saved]_vars

\* an empty page for a room that has a cursor, and for a room that has none
C10_Witness ==
    /\ last.op = "backfill"
    /\ last.outcome = "ok"
    /\ last.chunk = <<>>
    /\ HasToken(last.before, last.room)
    /\ room_sync_times = last.before
    /\ ~last.saved

(***************************************************************************)
(* C11.  A step of the backfill loop that ends without error appends to    *)
(* the sink one row for each text event of the page, in page order, and    *)
(* nothing else: an event of another kind gives no row.                    *)
(***************************************************************************)
C11_BackfillWritesTextEvents ==
    [][(pc = "backfill" /\ last'.op = "backfill" /\ last'.outcome = "ok") =>
          LET texts == SelectSeq(last'.chunk, IsTextEvent)
          IN  /\ Len(sink') = Len(sink) + Len(texts)
              /\ Len(written') = Len(written) + Len(texts)
              /\ SubSeq(sink', 1, Len(sink)) = sink
              /\ \A i \in 1..Len(texts) :
                     /\ written'[Len(written) + i].event_id = texts[i].event_id
                     /\ sink'[Len(sink) + i].room_id = last'.room
                     /\ sink'[Len(sink) + i].message_type = "RoomMessageText"
                     /\ sink'[Len(sink) + i].content_length = Len(texts[i].body)]_vars

\* a page of a text event, an emote and a text event gave the rows of the two
\* text events, in this order, as the last rows of the sink
C11_Witness ==
    /\ last.op = "backfill"
    /\ last.outcome = "ok"
    /\ Len(last.chunk) = 3
    /\ last.chunk[1].kind = "RoomMessageText"
    /\ last.chunk[2].kind = "RoomMessageEmote"
    /\ last.chunk[3].kind = "RoomMessageText"
    /\ Len(written) = 2
    /\ written[1].event_id = last.chunk[1].event_id
    /\ written[2].event_id = last.chunk[3].event_id

(***************************************************************************)
(* C12.  Once a live text event has been written, the resume-state file    *)
(* holds the updated last_sync_time.                                       *)
(***************************************************************************)
C12_LastSyncTimePersisted ==
    (last.op = "live" /\ last.outcome = "ok") =>
        /\ file[1] = "json"
        /\ \E k \in DOMAIN file[3] : ValueOfJson(file[3][k]) = last_sync_time

(***************************************************************************)
(* C13.  Once a room holds a cursor, no step of a run puts None or an      *)
(* earlier cursor in its place, in room_sync_times or in the file.         *)
(***************************************************************************)
\* the mapping a load of the file gives
FileMapping == LoadSyncState(file, EmptyDict)

C13_NeverRolledBack ==
    [][\A r \in Rooms :
          /\ (pc /= "stopped" /\ pc' /= "stopped" /\ HasToken(room_sync_times, r)) =>
                 /\ HasToken(room_sync_times, r)'
                 /\ CursorPosition(room_sync_times, r)' >= CursorPosition(room_sync_times, r)
          /\ (pc' /= "stopped" /\ HasToken(FileMapping, r)) =>
                 /\ HasToken(FileMapping, r)'
                 /\ CursorPosition(FileMapping, r)' >= CursorPosition(FileMapping, r)]_vars

(***************************************************************************)
(* C14.  run() starts the live feed only when the backfill loop has gone   *)
(* through every monitored room; a row is written on the live path only    *)
(* while the feed runs; and when a step of the backfill loop raises, run() *)
(* is left and the process ends without the feed having started.           *)
(***************************************************************************)
C14_LiveAfterBackfill ==
    [][/\ (pc' = "live" /\ pc /= "live") =>
              IF monitored_rooms = {} THEN pc = "login"
              ELSE pc = "backfill" /\ idx = Len(order)
       /\ (Len(written') > Len(written) /\ written'[Len(written')].via = "live") =>
              pc = "live"
       /\ (pc = "backfill" /\ last'.op = "backfill"
               /\ last'.outcome \in {"raised", "fetch_raised"}) =>
              pc' = "closing"
       /\ (pc = "closing" /\ pc' /= pc) => pc' = "stopped"]_vars

\* the fetch of the first of two monitored rooms has raised, with a message
\* waiting in the other room: the run has written no row on the live path
C14_Witness ==
    /\ pc = "closing"
    /\ last.op = "backfill"
    /\ last.outcome = "fetch_raised"
    /\ Len(order) = 2
    /\ idx = 1
    /\ Len(history[order[2]]) > 0
    /\ RowsOfRun(run, "live") = {}

(***************************************************************************)
(* C15.  When the backfill loop has ended without error, the file holds a  *)
(* mapping whose keys are exactly the monitored rooms.                     *)
(***************************************************************************)
C15_OneEntryPerMonitoredRoom ==
    (pc = "live" /\ last.op = "backfill" /\ last.outcome = "ok") =>
        /\ file[1] = "json"
        /\ DOMAIN file[3] = monitored_rooms

(***************************************************************************)
(* C16.  With no room id configured, the rooms of the join loop and of the *)
(* backfill loop are all the rooms the logged-in identity belongs to.      *)
(***************************************************************************)
C16_EmptyConfigMonitorsAll ==
    (settings.room_ids = {} /\ pc \in {"join", "backfill", "live"}) =>
        joined \subseteq monitored_rooms

(***************************************************************************)
(* C17.  With room ids configured, the monitored room set of a constructed *)
(* bridge is the configured set, at every point of the run, whatever the   *)
(* rooms the identity belongs to.                                          *)
(***************************************************************************)
C17_MonitoredIsConfigured ==
    (settings.room_ids /= {} /\ pc /= "stopped") =>
        monitored_rooms = settings.room_ids

\* only A is configured, the identity belongs to A and B, and the run has
\* fetched a page and written a live message of room B
C17_Witness ==
    /\ settings.room_ids = {"A"}
    /\ joined = {"A", "B"}
    /\ pc = "live"
    /\ monitored_rooms = {"A"}
    /\ \E k \in RowsOfRun(run, "backfill") : written[k].event_id[1] = "A"
    /\ \E k \in RowsOfRun(run, "live") : written[k].event_id[1] = "B"

(***************************************************************************)
(* C18.  A step that ends the process, at whatever point of the run, also  *)
(* inside save_sync_state, leaves in the file the mapping of the last save *)
(* that was completed.                                                     *)
(***************************************************************************)
C18_ShutdownKeepsPersisted ==
    [][(pc /= "stopped" /\ pc' = "stopped" /\ file[1] = "json") =>
          /\ file'[1] = "json"
          /\ \A r \in Rooms : HasToken(FileMapping, r) => HasToken(FileMapping, r)']_vars

(***************************************************************************)
(* C19.  The file is written by one step at a time: during the backfill    *)
(* loop only by the step of the loop's current room, whose rows are the    *)
(* only rows of the step; in the live loop only by the step of one live    *)
(* event; and the loop takes the rooms one after another, the live loop    *)
(* starting when the last one is done.                                     *)
(***************************************************************************)
C19_OneWriter ==
    [][LET new == (Len(written) + 1)..Len(written')
       IN  /\ file' /= file => pc \in {"backfill", "live"}
           /\ pc = "backfill" =>
                  /\ \A k \in new : /\ written'[k].via = "backfill"
                                    /\ written'[k].event_id[1] = order[idx]
                  /\ pc' = "backfill" => (idx' = idx + 1 /\ order' = order)
                  /\ pc' = "live" => idx = Len(order)
           /\ pc = "live" =>
                  /\ \A k \in new : written'[k].via = "live"
                  /\ Len(written') <= Len(written) + 1
                  /\ file' /= file => Len(written') = Len(written) + 1
           /\ pc \notin {"backfill", "live"} => written' = written]_vars

\* both rooms have been fetched, each step saving the file, and a live event
\* has then been written and saved
C19_Witness ==
    /\ pc = "live"
    /\ Len(order) = 2
    /\ \A r \in Rooms : \E k \in RowsOfRun(run, "backfill") : written[k].event_id[1] = r
    /\ Rooms \subseteq DOMAIN room_sync_times
    /\ last.op = "live"
    /\ last.saved
    /\ file = JsonDump(room_sync_times)

(***************************************************************************)
(* C20.  A process that ends has called matrix_client.close() exactly      *)
(* once, whether run() returned, was interrupted by KeyboardInterrupt      *)
(* (main() then returns) or raised another exception (which main() lets    *)
(* through); a process that runs has not called it.                        *)
(***************************************************************************)
C20_ClientClosedOnce ==
    [][/\ pc' /= "stopped" => closes' = 0
       /\ (pc /= "stopped" /\ pc' = "stopped") =>
              /\ closes' = 1
              /\ last'.op = "close"
              /\ last'.outcome = "raised" <=> pc = "closing"
       /\ (pc = "stopped" /\ pc' = "stopped") => closes' = closes]_vars

\* the second process has ended by an exception of run(), the client closed once
C20_Witness ==
    /\ pc = "stopped"
    /\ run = 2
    /\ last.op = "close"
    /\ last.outcome = "raised"
    /\ closes = 1

(***************************************************************************)
(* C21.  save_sync_state followed by load_sync_state gives back the        *)
(* mapping that was saved, for every mapping of room ids to cursors, None  *)
(* cursors included; and the file a save leaves holds the entries of the   *)
(* saved mapping and no other, whatever the file held before.              *)
(***************************************************************************)
C21_SaveLoadRoundTrip ==
    [][/\ last'.op = "save" =>
              /\ file'[1] = "json"
              /\ DOMAIN file'[3] = DOMAIN room_sync_times
       /\ (last.op = "save" /\ last'.op = "load") =>
              /\ last'.outcome = "ok"
              /\ room_sync_times' = last.before]_vars

\* a mapping with a None cursor for one room and no entry for the other has
\* been saved over a file and loaded back
C21_Witness ==
    /\ last.op = "load"
    /\ last.before = room_sync_times
    /\ file = JsonDump(room_sync_times)
    /\ DOMAIN room_sync_times = {"A"}
    /\ IsNone(room_sync_times["A"])

(***************************************************************************)
(* C22.  A backfill pass over a room writes every text event after the     *)
(* watermark it starts from, whether or not an earlier pass wrote it: a    *)
(* record that the pass of an earlier run wrote after that same watermark  *)
(* (a watermark the earlier pass left unchanged) is written again, with    *)
(* the same fields, and the sink then holds it twice.                      *)
(***************************************************************************)
C22_SameWatermarkSameRecords ==
    (last.op = "backfill" /\ last.outcome = "ok") =>
        \A k \in 1..Len(written) :
            (/\ written[k].via = "backfill"
             /\ written[k].run < run
             /\ written[k].event_id[1] = last.room
             /\ written[k].event_id[2] > CursorPosition(last.before, last.room))
                => \E j \in RowsOfRun(run, "backfill") :
                       /\ j /= k
                       /\ written[j].event_id = written[k].event_id
                       /\ sink[j] = sink[k]

\* the pass of run 1 wrote two records of room A and left the watermark as it
\* was (the third write raised); the pass of run 2 over the same history wrote
\* the same two records again, then the third
C22_Witness ==
    /\ run = 2
    /\ last.op = "backfill"
    /\ last.outcome = "ok"
    /\ last.room = "A"
    /\ IsNone(last.start)
    /\ Len(sink) = 5
    /\ \A k \in 1..2 : /\ written[k].run = 1
                       /\ written[k].via = "backfill"
                       /\ written[k + 2].run = 2
                       /\ written[k + 2].via = "backfill"
                       /\ written[k + 2].event_id = written[k].event_id
                       /\ sink[k + 2] = sink[k]

(***************************************************************************)
(* setup_logging on its own: consecutive calls in one process, with any    *)
(* settings, on a root logger that is new or already has a handler.        *)
(***************************************************************************)
\* calls of setup_logging in one behaviour
MaxCalls == 3

InitLogging ==
    /\ history = [r \in Rooms |-> <<>>]
    /\ joined = {"B"}
    /\ file = FileMissing
    /\ sink = <<>>
    /\ settings \in {s \in SettingsChoices : s.has_postgres /\ s.room_ids = Rooms}
    /\ pc = "logging"
    /\ run = 0
    /\ monitored_rooms = {}
    /\ order = <<>>
    /\ idx = 1
    /\ room_sync_times = EmptyDict
    /\ last_sync_time = None
    /\ syncPos = [r \in Rooms |-> 0]
    /\ written = <<>>
    /\ loaded = EmptyDict
    /\ last = Op("none", "", "ok", FALSE)
    /\ posts = 0
    /\ closes = 0
    /\ root_logger \in RootLoggerChoices
    /\ setup_calls = 0

\* setup_logging(settings) with settings.logging = cfg; the record of the call
\* keeps cfg.level in the field that names a room for the other operations
SetupLoggingCall(cfg) ==
    /\ pc = "logging"
    /\ setup_calls < MaxCalls
    /\ setup_calls' = setup_calls + 1
    /\ root_logger' = SetupLogging(root_logger, cfg, setup_calls')
    /\ last' = Op("setup_logging", cfg.level,
                  IF SetupLoggingRaises(cfg) THEN "raised" ELSE "ok", FALSE)
    /\ UNCHANGED <<serverVars, file, sink, settings, pc, run, bridgeVars, written, loaded,
                   posts, closes>>

NextLogging == \E cfg \in LogConfigChoices : SetupLoggingCall(cfg)

SpecLogging == InitLogging /\ [][NextLogging]_vars

(***************************************************************************)
(* C23.  After a call of setup_logging that returns, whatever calls came   *)
(* before it, the root logger has exactly two handlers, a StreamHandler    *)
(* and a RotatingFileHandler, both made by that call, and its level is the *)
(* level the settings of that call name.                                   *)
(***************************************************************************)
C23_TwoHandlersLatestLevel ==
    (last.op = "setup_logging" /\ last.outcome = "ok") =>
        /\ Len(root_logger.handlers) = 2
        /\ {root_logger.handlers[i].kind : i \in 1..2} =
               {"StreamHandler", "RotatingFileHandler"}
        /\ \A i \in 1..2 : root_logger.handlers[i].made_by = setup_calls
        /\ root_logger.level = LevelOf(Upper(last.room))

\* the third call in a row has returned, at level ERROR
C23_Witness ==
    /\ last.op = "setup_logging"
    /\ last.outcome = "ok"
    /\ setup_calls = 3
    /\ last.room = "ERROR"
    /\ root_logger.level = 40
    /\ Len(root_logger.handlers) = 2

(***************************************************************************)
(* A bridge started on a resume-state file written earlier: the file holds *)
(* for room A any cursor that JSON can give the store, the falsy int and   *)
(* the falsy str among them.                                               *)
(***************************************************************************)
ResumeCursorChoices == {None, StrVal(Tok(0)), StrVal(""), IntVal(7), IntVal(0)}

ResumeFileChoices == {JsonDump(m) : m \in [{"A"} -> ResumeCursorChoices]}

InitResume ==
    /\ history = [r \in Rooms |-> <<>>]
    /\ joined = {"B"}
    /\ file \in ResumeFileChoices
    /\ sink = <<>>
    /\ settings \in {s \in SettingsChoices :
                        s.has_postgres /\ ~s.store_content /\ s.room_ids = {"A"}}
    /\ pc = "stopped"
    /\ run = 0
    /\ monitored_rooms = {}
    /\ order = <<>>
    /\ idx = 1
    /\ room_sync_times = EmptyDict
    /\ last_sync_time = None
    /\ syncPos = [r \in Rooms |-> 0]
    /\ written = <<>>
    /\ loaded = EmptyDict
    /\ last = Op("none", "", "ok", FALSE)
    /\ posts = 0
    /\ closes = 0
    /\ root_logger = FreshRootLogger
    /\ setup_calls = 0

SpecResume == InitResume /\ [][Next]_vars

(***************************************************************************)
(* C24.  The page fetch of a room is issued with start equal to the        *)
(* cursor the store holds for the room whenever that cursor is not None,   *)
(* the cursors 0 and "" included, and with start None only when the room   *)
(* has no entry or a None cursor.                                          *)
(***************************************************************************)
C24_StartIsStoredCursor ==
    last.op = "backfill" =>
        LET cursor == Get(last.before, last.room)
        IN  last.start = IF IsNone(cursor) THEN None ELSE StrVal(StrOf(cursor))

(***************************************************************************)
(* The derivation of a record on its own: events are handed to the page    *)
(* loop's row builder and to handle_message, as the unit tests do with     *)
(* events they construct.  The source of such an event may lack the keys   *)
(* sender and origin_server_ts, and may differ from the attributes.        *)
(***************************************************************************)
\* rows written in one behaviour
MaxRows == 2

\* the sources an event may have
SourceChoices(r, i) ==
    {[k \in K |-> IF k = "sender" THEN "@source:hs" ELSE OriginTs(r, i)] :
        K \in SUBSET {"sender", "origin_server_ts"}}

\* text events with such a source; the attribute server_timestamp is later
\* than the origin_server_ts of the source
RecordEventChoices(r, i) ==
    {[event_id |-> <<r, i>>, kind |-> TextKind, body |-> BodyOf(r, i),
      sender |-> "@user:hs", server_timestamp |-> OriginTs(r, i) + 1,
      source |-> src] : src \in SourceChoices(r, i)}

InitRecord ==
    /\ history = [r \in Rooms |-> <<>>]
    /\ joined = {"B"}
    /\ file = FileMissing
    /\ sink = <<>>
    /\ settings \in {s \in SettingsChoices : s.has_postgres /\ s.room_ids = Rooms}
    /\ pc = "record"
    /\ run = 1
    /\ monitored_rooms = MonitoredRooms(settings.room_ids)
    /\ order = <<"A", "B">>
    /\ idx = 1
    /\ room_sync_times = EmptyDict
    /\ last_sync_time = None
    /\ syncPos = [r \in Rooms |-> 0]
    /\ written = <<>>
    /\ loaded = EmptyDict
    /\ last = Op("start", "", "ok", FALSE)
    /\ posts = 0
    /\ closes = 0
    /\ root_logger = FreshRootLogger
    /\ setup_calls = 0

recordFrame == <<joined, file, settings, logVars, pc, run, bridgeVars, loaded, closes>>

\* an event is constructed
RecordEvent(r, event) ==
    /\ pc = "record"
    /\ posts < MaxPosts
    /\ posts' = posts + 1
    /\ history' = [history EXCEPT ![r] = Append(@, event)]
    /\ last' = Op("event", r, "ok", FALSE)
    /\ UNCHANGED <<sink, written, recordFrame>>

\* the body of the page loop for the i-th event of room r
RecordBackfill(r, i) ==
    /\ pc = "record"
    /\ Len(sink) < MaxRows
    /\ sink' = Append(sink, BackfillRow(r, history[r][i], settings.store_content))
    /\ written' = Append(written, [event_id |-> <<r, i>>, run |-> run, via |-> "backfill"])
    /\ last' = Op("backfill_row", r, "ok", FALSE)
    /\ UNCHANGED <<history, posts, recordFrame>>

\* bridge.handle_message(r, event) for the i-th event of room r
RecordLive(r, i) ==
    /\ pc = "record"
    /\ Len(sink) < MaxRows
    /\ sink' = Append(sink, HandleMessageRow(r, history[r][i], settings.store_content))
    /\ written' = Append(written, [event_id |-> <<r, i>>, run |-> run, via |-> "live"])
    /\ last' = Op("handle_message", r, "ok", FALSE)
    /\ UNCHANGED <<history, posts, recordFrame>>

\* the room the events are constructed for
RecordRooms == {"A"}

NextRecord ==
    \/ \E r \in RecordRooms : \E event \in RecordEventChoices(r, Len(history[r]) + 1) :
           RecordEvent(r, event)
    \/ \E r \in RecordRooms : \E i \in 1..Len(history[r]) : RecordBackfill(r, i)
    \/ \E r \in RecordRooms : \E i \in 1..Len(history[r]) : RecordLive(r, i)

SpecRecord == InitRecord /\ [][NextRecord]_vars

(***************************************************************************)
(* C25.  The row handle_message writes for an event of a room is equal,    *)
(* field by field, to the row the page loop of backfill writes for the     *)
(* same event of the same room.                                            *)
(***************************************************************************)
C25_LiveRowEqualsBackfillRow ==
    \A j, k \in 1..Len(sink) :
        (/\ written[j].event_id = written[k].event_id
         /\ written[j].via = "live"
         /\ written[k].via = "backfill")
            => /\ sink[j] = sink[k]
               /\ sink[j].room_id = written[j].event_id[1]

\* an event whose source names another sender than its attribute and holds
\* no origin_server_ts has been written on both paths
C25_Witness ==
    \E j, k \in 1..Len(sink) :
        /\ written[j].event_id = written[k].event_id
        /\ written[j].via = "live"
        /\ written[k].via = "backfill"
        /\ DOMAIN EventOfRow(j).source = {"sender"}
        /\ sink[j].sender = "@source:hs"
        /\ sink[k].sender = "@source:hs"

(***************************************************************************)
(* C26.  The timestamp of every row is the UTC instant of the              *)
(* origin_server_ts of the event's source when the source holds one, and   *)
(* of the event's server_timestamp when it does not.                       *)
(***************************************************************************)
C26_TimestampIsOriginTime ==
    \A k \in 1..Len(sink) :
        LET event == EventOfRow(k)
        IN  /\ sink[k].timestamp.tz = "UTC"
            /\ sink[k].timestamp.ms =
                   IF "origin_server_ts" \in DOMAIN event.source
                   THEN event.source["origin_server_ts"]
                   ELSE event.server_timestamp

\* a row of an event whose source holds an origin_server_ts other than the
\* attribute, and a row of an event whose source holds none
C26_Witness ==
    /\ \E k \in 1..Len(sink) :
           /\ "origin_server_ts" \in DOMAIN EventOfRow(k).source
           /\ sink[k].timestamp.ms /= EventOfRow(k).server_timestamp
    /\ \E k \in 1..Len(sink) :
           /\ "origin_server_ts" \notin DOMAIN EventOfRow(k).source
           /\ sink[k].timestamp.ms = EventOfRow(k).server_timestamp

(***************************************************************************)
(* C27.  run() goes through login, the join of every monitored room, the   *)
(* backfill loop and the live loop, in this order.  When the login fails,  *)
(* run() raises: from then to the end of the process no room is joined, no *)
(* page is fetched, no row is written and the file is not rewritten.       *)
(***************************************************************************)
C27_RunOrder ==
    [][/\ (pc = "stopped" /\ pc' /= pc) => pc' = "login"
       /\ (pc = "login" /\ pc' /= pc) =>
              /\ last'.op = "login"
              /\ pc' = IF last'.outcome = "raised" THEN "closing"
                       ELSE IF monitored_rooms = {} THEN "live" ELSE "join"
       /\ (pc = "join" /\ pc' /= pc) =>
              /\ pc' = "backfill"
              /\ monitored_rooms \subseteq joined'
       /\ pc = "join" => (last'.op = "join" /\ sink' = sink /\ file' = file)
       /\ (pc = "backfill" /\ pc' /= pc) => pc' \in {"live", "closing", "stopped"}
       /\ (pc = "live" /\ pc' /= pc) => pc' \in {"closing", "stopped"}
       /\ pc \in {"login", "closing"} =>
              /\ joined' = joined
              /\ sink' = sink
              /\ file' = file
              /\ room_sync_times' = room_sync_times \/ pc' = "stopped"
              /\ last'.op \in {"login", "close"}]_vars

\* the login of the first run has failed with a message waiting in room A,
\* which is monitored and not joined: nothing was joined, fetched or written
C27_Witness ==
    /\ run = 1
    /\ pc = "closing"
    /\ last.op = "login"
    /\ last.outcome = "raised"
    /\ monitored_rooms = {"A", "B"}
    /\ Len(history["A"]) > 0
    /\ joined = {"B"}
    /\ sink = <<>>
    /\ file = FileMissing

C29_FailedPagePrefixRewritten ==
    [][/\ SubSeq(sink', 1, Len(sink)) = sink
       /\ (pc = "backfill" /\ last'.op = "backfill" /\ last'.outcome = "raised") =>
              LET texts == SelectSeq(last'.chunk, IsTextEvent)
              IN  /\ Len(written') = Len(written) + last'.failed_at - 1
                  /\ \A i \in 1..(last'.failed_at - 1) :
                         written'[Len(written) + i].event_id = texts[i].event_id
                  /\ file' = file
       /\ (pc = "backfill" /\ last'.op = "backfill" /\ last'.outcome = "ok") =>
              \A k \in 1..Len(written) :
                  (/\ written[k].via = "backfill"
                   /\ written[k].event_id[1] = last'.room
                   /\ written[k].event_id[2] > CursorPosition(room_sync_times, last'.room))
                      => \E j \in (Len(written) + 1)..Len(written') :
                             /\ written'[j].event_id = written[k].event_id
                             /\ sink'[j] = sink[k]]_vars

\* the second write of the page of room B raised in run 1, the first row
\* staying in the sink; the backfill of run 2 has written that row again, and
\* then the row of the second message
C29_Witness ==
    /\ run = 2
    /\ last.op = "backfill"
    /\ last.outcome = "ok"
    /\ last.room = "B"
    /\ Len(written) = 3
    /\ written[1] = [event_id |-> <<"B", 1>>, run |-> 1, via |-> "backfill"]
    /\ written[2] = [event_id |-> <<"B", 1>>, run |-> 2, via |-> "backfill"]
    /\ written[3] = [event_id |-> <<"B", 2>>, run |-> 2, via |-> "backfill"]
    /\ sink[2] = sink[1]

(***************************************************************************)
(* C30.  When the backfill pass has been left by an exception at some      *)
(* room, the rooms taken before it have the cursor their page gave them,   *)
(* never an earlier one than at the start of the pass, in room_sync_times  *)
(* and in the file alike; the failing room and the rooms not reached have  *)
(* the cursor they had when the pass started, in both places.              *)
(***************************************************************************)
C30_AbortKeepsEarlierRooms ==
    (/\ pc = "closing"
     /\ last.op = "backfill"
     /\ last.outcome \in {"raised", "fetch_raised"}) =>
        /\ last.room = order[idx]
        /\ \A i \in 1..Len(order) :
               LET r == order[i]
               IN  /\ Get(FileMapping, r) = Get(room_sync_times, r)
                   /\ IF i < idx
                      THEN \/ Get(room_sync_times, r) = Get(loaded, r)
                           \/ /\ Get(room_sync_times, r) = StrVal(Tok(Len(history[r])))
                              /\ Len(history[r]) > CursorPosition(loaded, r)
                      ELSE Get(room_sync_times, r) = Get(loaded, r)

\* run 2 started with a cursor for room A and none for room B; its pass moved
\* the cursor of A forward and saved it, then a write of the page of B raised
C30_Witness ==
    /\ run = 2
    /\ pc = "closing"
    /\ last.op = "backfill"
    /\ last.outcome = "raised"
    /\ order = <<"A", "B">>
    /\ idx = 2
    /\ loaded = [r \in {"A"} |-> StrVal(Tok(1))]
    /\ room_sync_times = [r \in {"A"} |-> StrVal(Tok(2))]
    /\ file = JsonDump(room_sync_times)
    /\ Len(history["B"]) > 0

(***************************************************************************)
(* C31.  An iteration of the backfill loop whose fetch returns an error    *)
(* response writes no row, leaves room_sync_times and the file as they     *)
(* were, and goes on: to the next monitored room, or, after the last one,  *)
(* out of the pass without an exception.                                   *)
(***************************************************************************)
C31_ErrorResponseSkipsRoom ==
    [][(/\ pc = "backfill"
        /\ last'.op = "backfill"
        /\ last'.outcome = "error_response") =>
          /\ last'.room = order[idx]
          /\ sink' = sink
          /\ written' = written
          /\ room_sync_times' = room_sync_times
          /\ file' = file
          /\ IF idx < Len(order)
             THEN pc' = "backfill" /\ idx' = idx + 1 /\ order' = order
             ELSE pc' = "live"]_vars

\* the fetch of the first of two rooms, which holds a text message, has
\* returned an error response: nothing is written or saved, and the loop
\* stands at the second room
C31_Witness ==
    /\ pc = "backfill"
    /\ last.op = "backfill"
    /\ last.outcome = "error_response"
    /\ Len(order) = 2
    /\ idx = 2
    /\ last.room = order[1]
    /\ \E i \in 1..Len(history[last.room]) : history[last.room][i].kind = TextKind
    /\ sink = <<>>
    /\ file = FileMissing
    /\ room_sync_times = EmptyDict

(***************************************************************************)
(* C32.  A backfill pass makes one page fetch for each monitored room in   *)
(* turn and none besides: every step of the pass is the fetch of the room  *)
(* the loop stands at, the loop then stands at the next room, no room      *)
(* comes twice, and a page holds at most 100 events.  A pass without error *)
(* ends when it has fetched once for every monitored room.                 *)
(***************************************************************************)
C32_OneFetchPerRoom ==
    [][pc = "backfill" =>
          /\ Len(order) = Cardinality(monitored_rooms)
          /\ \A i, j \in 1..Len(order) : order[i] = order[j] => i = j
          /\ idx \in 1..Len(order)
          /\ pc' = "backfill" =>
                 /\ last'.op = "backfill"
                 /\ last'.room = order[idx]
                 /\ idx' = idx + 1
                 /\ order' = order
          /\ pc' = "live" =>
                 /\ last'.op = "backfill"
                 /\ last'.room = order[idx]
                 /\ idx = Len(order)
          /\ last'.op = "backfill" => Len(last'.chunk) <= 100]_vars

\* the pass over two rooms has ended; the one fetch of room A, which holds
\* 101 messages, gave the first 100
C32_Witness ==
    /\ pc = "live"
    /\ last.op = "backfill"
    /\ Len(order) = 2
    /\ Len(history["A"]) = 101
    /\ Len(sink) = 100
    /\ room_sync_times["A"] = StrVal(Tok(100))

(***************************************************************************)
(* C33.  A page that holds events, none of them a text message, adds no    *)
(* row to the sink, and the cursor of the room is set to the end token of  *)
(* the page, in room_sync_times and in the file.                           *)
(***************************************************************************)
C33_NonTextPageAdvances ==
    [][(/\ pc = "backfill"
        /\ last'.op = "backfill"
        /\ last'.outcome = "ok"
        /\ last'.chunk /= <<>>
        /\ \A i \in 1..Len(last'.chunk) : last'.chunk[i].kind /= "RoomMessageText") =>
          /\ sink' = sink
          /\ written' = written
          /\ last'.end = StrVal(Tok(Len(history[last'.room])))
          /\ room_sync_times' = SetItem(room_sync_times, last'.room, last'.end)
          /\ room_sync_times' /= room_sync_times
          /\ last'.saved
          /\ file' = JsonDump(room_sync_times')]_vars

\* a page of two emotes after the cursor of the room: no row, and the cursor
\* of the room has moved to the end of the page and is in the file
C33_Witness ==
    /\ last.op = "backfill"
    /\ last.outcome = "ok"
    /\ Len(last.chunk) = 2
    /\ \A i \in 1..2 : last.chunk[i].kind = "RoomMessageEmote"
    /\ HasToken(last.before, last.room)
    /\ RowsOfRun(run, "backfill") = {}
    /\ CursorPosition(room_sync_times, last.room) =
           CursorPosition(last.before, last.room) + 2
    /\ file = JsonDump(room_sync_times)

\* the server timestamps of the events the current run has written on the
\* live path
LiveTimestamps == {EventOfRow(k).server_timestamp : k \in RowsOfRun(run, "live")}

(***************************************************************************)
(* C34.  last_sync_time is None until the run has written a live event,    *)
(* and then it is the largest server timestamp of the live events the run  *)
(* has written, in whatever order of timestamps they came; while the       *)
(* process of the run lives it never decreases.                            *)
(***************************************************************************)
C34_LastSyncTimeIsMax ==
    /\ [](pc /= "stopped" =>
            IF LiveTimestamps = {}
              THEN last_sync_time = None
              ELSE /\ last_sync_time[1] = "int"
                   /\ last_sync_time[2] \in LiveTimestamps
                   /\ \A t \in LiveTimestamps : t <= last_sync_time[2])
    /\ [][(pc /= "stopped" /\ pc' /= "stopped" /\ ~IsNone(last_sync_time)) =>
              /\ ~IsNone(last_sync_time')
              /\ last_sync_time'[2] >= last_sync_time[2]]_vars

\* the callback has just written an event that is older than one the run
\* wrote before it, and last_sync_time is still the timestamp of the newer
C34_Witness ==
    /\ last.op = "live"
    /\ last.outcome = "ok"
    /\ Cardinality(RowsOfRun(run, "live")) >= 2
    /\ EventOfRow(Len(written)).server_timestamp < last_sync_time[2]
    /\ last_sync_time[2] \in LiveTimestamps

(***************************************************************************)
(* C35.  When the write of a live text event raises, message_callback      *)
(* raises too: run() ends with the exception, no row is added, and         *)
(* last_sync_time, room_sync_times and the file are what they were before  *)
(* the event.                                                              *)
(***************************************************************************)
C35_LiveWriteFailureLeavesState ==
    [][(FeedRunning(pc) /\ last'.op = "live" /\ last'.outcome = "raised") =>
          /\ IsTextEvent(history[last'.room][syncPos[last'.room] + 1])
          /\ pc' = "closing"
          /\ sink' = sink
          /\ written' = written
          /\ last_sync_time' = last_sync_time
          /\ room_sync_times' = room_sync_times
          /\ file' = file
          /\ ~last'.saved]_vars

\* the write of a live event has raised in a run that had written an
\* earlier live event: last_sync_time is still that of the earlier event
C35_Witness ==
    /\ last.op = "live"
    /\ last.outcome = "raised"
    /\ pc = "closing"
    /\ RowsOfRun(run, "live") /= {}
    /\ ~IsNone(last_sync_time)
    /\ last_sync_time[2] \in LiveTimestamps

(***************************************************************************)
(* The InfluxDB bridge of src/src/matrix_to_influx.py: its message_callback *)
(* and handle_message, on a bridge whose run() has reached sync_forever.   *)
(***************************************************************************)
\* an attribute of the bridge object that no statement has assigned yet
Unset == <<"unset">>

\* the settings the bridge is constructed with: the InfluxDBConfig of
\* src/src/config.py has no field store_content, the settings object of the
\* tests has one
InfluxSettingsChoices ==
    {s \in [room_ids : {Rooms}, has_postgres : {FALSE}, has_store_content : BOOLEAN,
            store_content : BOOLEAN] : s.store_content => s.has_store_content}

\* the point handle_message writes: the field content only if enabled
InfluxPoint(room_id, event, store_content) ==
    [measurement |-> "matrix_message", sender |-> EventSender(event), room_id |-> room_id,
     message_type |-> event.kind, time |-> EventTimestampMs(event),
     content |-> IF store_content THEN StrVal(event.body) ELSE None,
     content_length |-> Len(event.body)]

\* __init__ of the InfluxDB bridge assigns settings, matrix_client,
\* influx_client, write_api, room_sync_times and monitored_rooms, and calls
\* load_sync_state: last_sync_time is not among them
InitInflux ==
    /\ history = [r \in Rooms |-> <<>>]
    /\ joined = Rooms
    /\ file \in {FileMissing, JsonDump([r \in {"A"} |-> StrVal(Tok(0))])}
    /\ sink = <<>>
    /\ settings \in InfluxSettingsChoices
    /\ pc = "live"
    /\ run = 1
    /\ monitored_rooms = MonitoredRooms(settings.room_ids)
    /\ order \in Orders(monitored_rooms)
    /\ idx = Len(order) + 1
    /\ room_sync_times = LoadSyncState(file, EmptyDict)
    /\ last_sync_time = Unset
    /\ syncPos = [r \in Rooms |-> 0]
    /\ written = <<>>
    /\ loaded = room_sync_times
    /\ last = Op("start", "", "ok", FALSE)
    /\ posts = 0
    /\ closes = 0
    /\ root_logger = FreshRootLogger
    /\ setup_calls = 0

\* message_callback of the InfluxDB bridge for the next event of room r:
\* handle_message reads settings.influxdb.store_content, which raises when
\* the settings have no such field, and writes the point, which may raise;
\* then line 85 reads self.last_sync_time
InfluxMessageCallback(r, fails) ==
    LET event == history[r][syncPos[r] + 1]
    IN  /\ pc = "live"
        /\ r \in joined
        /\ syncPos[r] < Len(history[r])
        /\ syncPos' = [syncPos EXCEPT ![r] = @ + 1]
        /\ IF ~IsInScope(event)
             THEN /\ ~fails
                  /\ last' = Op("live", r, "ignored", FALSE)
                  /\ UNCHANGED <<sink, written, room_sync_times, last_sync_time, file, pc>>
             ELSE IF fails \/ ~settings.has_store_content
             THEN /\ pc' = "closing"
                  /\ last' = Op("live", r, "raised", FALSE)
                  /\ UNCHANGED <<sink, written, room_sync_times, last_sync_time, file>>
             ELSE /\ sink' = Append(sink, InfluxPoint(r, event, settings.store_content))
                  /\ written' = Append(written, [event_id |-> event.event_id,
                                                 run |-> run, via |-> "live"])
                  /\ UNCHANGED room_sync_times
                  /\ IF last_sync_time = Unset
                       THEN /\ pc' = "closing"
                            /\ last' = Op("live", r, "raised", FALSE)
                            /\ UNCHANGED <<last_sync_time, file>>
                       ELSE /\ last_sync_time' =
                                   LastSyncTimeAfter(event.server_timestamp, last_sync_time)
                            /\ file' = SaveSyncState(room_sync_times)
                            /\ last' = Op("live", r, "ok", TRUE)
                            /\ pc' = pc
        /\ UNCHANGED <<serverVars, settings, logVars, run, monitored_rooms, order, idx,
                       loaded, posts, closes>>

NextInflux ==
    \/ \E r \in Rooms, kind \in EventKinds : ServerPost(r, kind)
    \/ \E r \in Rooms, fails \in BOOLEAN : InfluxMessageCallback(r, fails)

SpecInflux == InitInflux /\ [][NextInflux]_vars

(***************************************************************************)
(* C37.  In the InfluxDB bridge, message_callback for a live text event    *)
(* whose point was written returns normally, with last_sync_time the       *)
(* larger of the event's timestamp and its former value and the file       *)
(* rewritten with room_sync_times; the first live event after construction *)
(* is no exception.                                                        *)
(***************************************************************************)
C37_InfluxCallbackReturns ==
    [][(pc = "live" /\ last'.op = "live" /\ Len(sink') = Len(sink) + 1) =>
          /\ last'.outcome = "ok"
          /\ pc' = "live"
          /\ last_sync_time'[1] = "int"
          /\ last_sync_time'[2] >= history[last'.room][syncPos'[last'.room]].server_timestamp
          /\ file' = JsonDump(room_sync_times)]_vars

====
